---- MODULE Spec2Model ----
(***************************************************************************)
(* Model of src/http-server-host.py: a native messaging host.  The main   *)
(* thread runs NativeMessagingHost.run_native_messaging_loop, reading     *)
(* length-prefixed frames from standard input and answering them on       *)
(* standard output.  A start_server message starts a daemon thread that   *)
(* runs a socketserver.TCPServer (one request at a time) whose POST and   *)
(* DELETE handlers call send_to_extension, which writes a frame to the    *)
(* same standard output and reads its answer from the same standard       *)
(* input.                                                                  *)
(*                                                                         *)
(* Standard input is modelled at the level of bytes: each read(n) call of *)
(* the buffered reader is one atomic step that takes n bytes, or fewer at *)
(* end of file.  Standard output is modelled at the level of write calls. *)
(***************************************************************************)
EXTENDS Integers, Sequences, FiniteSets, TLC

\* ------------------------------------------------------------------ bounds
MaxRequests == 2      \* HTTP requests the clients send
MaxControl == 2       \* control frames the peer sends

\* --------------------------------------------------------------- constants
DefaultPort == 8765
DefaultStatus == 200
PrefixLen == 4
ByteBase == 256

\* the ports the peer asks for: the default, and the one it names
Ports == {DefaultPort, 9999}
OtherPort == CHOOSE p \in Ports : p # DefaultPort
Requests == 1..MaxRequests

\* ---------------------------------------------------- JSON texts, in ASCII
\* {"type":"ping"}
PingText ==
    <<123, 34, 116, 121, 112, 101, 34, 58, 34, 112, 105, 110, 103, 34, 125>>
\* {"type":"start_server"}
StartText ==
    <<123, 34, 116, 121, 112, 101, 34, 58, 34, 115, 116, 97, 114, 116, 95,
      115, 101, 114, 118, 101, 114, 34, 125>>
\* {"type":"start_server","port":9999}
StartPortText ==
    <<123, 34, 116, 121, 112, 101, 34, 58, 34, 115, 116, 97, 114, 116, 95,
      115, 101, 114, 118, 101, 114, 34, 44, 34, 112, 111, 114, 116, 34, 58,
      57, 57, 57, 57, 125>>
\* {"type":"stop_server"}
StopText ==
    <<123, 34, 116, 121, 112, 101, 34, 58, 34, 115, 116, 111, 112, 95, 115,
      101, 114, 118, 101, 114, 34, 125>>
\* {}
EmptyObjText ==
    <<123, 125>>
\* []
ArrayText ==
    <<91, 93>>
\* {     (not JSON)
BrokenText ==
    <<123>>
\* {"status":204,"body":{}}
NoContentText ==
    <<123, 34, 115, 116, 97, 116, 117, 115, 34, 58, 50, 48, 52, 44, 34, 98,
      111, 100, 121, 34, 58, 123, 125, 125>>
\* {"status":200,"body":   followed by one digit and }
EchoPrefix ==
    <<123, 34, 115, 116, 97, 116, 117, 115, 34, 58, 50, 48, 48, 44, 34, 98,
      111, 100, 121, 34, 58>>

\* {"status":200,"body":<r>} : the answer that echoes the probe r (one digit)
EchoText(r) == EchoPrefix \o <<48 + r, 125>>

\* the frames the peer sends of its own accord
ControlTexts ==
    {PingText, StartText, StartPortText, StopText, EmptyObjText, ArrayText,
     BrokenText}

\* the answers the peer gives to the bridge request carrying probe r
AnswerTexts(r) == {EchoText(r), NoContentText, ArrayText}

\* ------------------------------------------------------------ struct, json
\* struct.pack('@I', n): four bytes, least significant first
Pack(n) ==
    <<n % ByteBase, (n \div ByteBase) % ByteBase,
      (n \div (ByteBase * ByteBase)) % ByteBase,
      (n \div (ByteBase * ByteBase * ByteBase)) % ByteBase>>

\* struct.unpack('@I', b)[0]
Unpack(b) ==
    b[1] + ByteBase * b[2] + ByteBase * ByteBase * b[3]
         + ByteBase * ByteBase * ByteBase * b[4]

\* the result of json.loads: what was parsed, with the keys the code reads;
\* body is the JSON text of the value under "body", or error the string
\* under its key "error"
Json(kind, keys, type, port, status, body) ==
    [kind |-> kind, keys |-> keys, type |-> type, port |-> port,
     status |-> status, body |-> body, error |-> ""]

Invalid == Json("invalid", {}, "", 0, 0, <<>>)

IsEcho(b) ==
    /\ Len(b) = Len(EchoPrefix) + 2
    /\ SubSeq(b, 1, Len(EchoPrefix)) = EchoPrefix
    /\ b[Len(b)] = 125
    /\ b[Len(b) - 1] \in 48..57

\* json.loads(bytes.decode('utf-8')) on the texts that occur; every other
\* byte sequence that a read can return here holds a part of a length
\* prefix or a part of a text, and is not JSON
Loads(b) ==
    IF b = PingText THEN Json("object", {"type"}, "ping", 0, 0, <<>>)
    ELSE IF b = StartText
        THEN Json("object", {"type"}, "start_server", 0, 0, <<>>)
    ELSE IF b = StartPortText
        THEN Json("object", {"type", "port"}, "start_server", OtherPort, 0,
                  <<>>)
    ELSE IF b = StopText THEN Json("object", {"type"}, "stop_server", 0, 0, <<>>)
    ELSE IF b = EmptyObjText THEN Json("object", {}, "", 0, 0, <<>>)
    ELSE IF b = ArrayText THEN Json("array", {}, "", 0, 0, <<>>)
    ELSE IF b = NoContentText
        THEN Json("object", {"status", "body"}, "", 0, 204, EmptyObjText)
    ELSE IF IsEcho(b)
        THEN Json("object", {"status", "body"}, "", 0, 200,
                  <<b[Len(b) - 1]>>)
    ELSE Invalid

\* ------------------------------------------------------------------- state
VARIABLES
    wire,         \* frames in the pipe to standard input, not yet read whole
    rpos,         \* bytes of the first of them already read, by any reader
    eof,          \* the peer has closed the host's standard input
    out,          \* write calls on standard output the peer has not yet
                  \* received as whole frames, in order
    torn,         \* the peer has received something else than whole frames
    received,     \* bridge requests the peer has received
    answered,     \* bridge requests the peer has answered
    nctl,         \* control frames the peer has sent
    mpc,          \* main thread: position in run_native_messaging_loop
    mlen,         \* main thread: text_length
    response,     \* main thread: response
    nresp,        \* main thread: responses built so far
    running,      \* NativeMessagingHost.running
    serverThread, \* NativeMessagingHost.server_thread: none, alive or dead
    listenPort,   \* port of the bound listener, 0 when none
    busyPorts,    \* ports held by other processes
    bindLog,      \* bind attempts of run_server: port and outcome
    req,          \* HTTP requests sent by clients
    backlog,      \* accepted connections not yet handled, in order
    reply,        \* HTTP replies received by clients
    hpc,          \* server thread: position in the handler
    hcur,         \* server thread: request being handled, 0 when none
    hlen,         \* server thread: text_length
    hresp,        \* server thread: result of send_to_extension
    exitStatus,   \* exit status of the process, -1 while it runs
    cpay,         \* framing alone: the text to send, as code points
    cstream,      \* framing alone: the bytes written
    cpos,         \* framing alone: how many of them have been read
    ctextlen,     \* framing alone: text_length
    cgot,         \* framing alone: the text read back
    cpc           \* framing alone: position

stdinVars == <<wire, rpos, eof>>
stdoutVars == <<out, torn, received>>
peerVars == <<answered, nctl>>
mainVars == <<mpc, mlen, response, nresp, running>>
serverVars == <<serverThread, listenPort, busyPorts, bindLog>>
clientVars == <<req, backlog, reply>>
handlerVars == <<hpc, hcur, hlen, hresp>>
codecVars == <<cpay, cstream, cpos, ctextlen, cgot, cpc>>
vars ==
    <<wire, rpos, eof, out, torn, received, answered, nctl, mpc, mlen,
      response, nresp,
      running, serverThread, listenPort, busyPorts, bindLog, req, backlog,
      reply, hpc, hcur, hlen, hresp, exitStatus, cpay, cstream, cpos,
      ctextlen, cgot, cpc>>

\* ------------------------------------------------------------ standard input
\* a frame on the wire: the text, how many bytes of prefix and text were
\* written before the peer stopped, and what the peer meant by it
Frame(text, sent, kind, rid) ==
    [text |-> text, sent |-> sent, kind |-> kind, rid |-> rid]

WholeFrame(text, kind, rid) == Frame(text, PrefixLen + Len(text), kind, rid)

FrameBytes(f) == SubSeq(Pack(Len(f.text)) \o f.text, 1, f.sent)

RECURSIVE WireBytes(_)
WireBytes(w) ==
    IF w = <<>> THEN <<>> ELSE FrameBytes(Head(w)) \o WireBytes(Tail(w))

Available == Len(WireBytes(wire)) - rpos

Min(a, b) == IF a < b THEN a ELSE b

\* sys.stdin.buffer.read(n) returns once n bytes have arrived or at end of
\* file
CanRead(n) == Available >= n \/ eof

\* the bytes sys.stdin.buffer.read(n) returns
Read(n) == SubSeq(WireBytes(wire), rpos + 1, rpos + Min(n, Available))

\* the frames left in the pipe once n more bytes have been read, and the
\* bytes already read of the first of them
RECURSIVE Consume(_, _)
Consume(w, p) ==
    IF w # <<>> /\ p >= Head(w).sent
        THEN Consume(Tail(w), p - Head(w).sent)
        ELSE <<w, p>>

WireAfter(n) == Consume(wire, rpos + n)[1]
RposAfter(n) == Consume(wire, rpos + n)[2]

\* offset of the first byte of frame k
RECURSIVE FrameStart(_)
FrameStart(k) ==
    IF k = 1 THEN 0 ELSE FrameStart(k - 1) + wire[k - 1].sent

\* the whole frames whose text starts at offset pos and has length n
FramesAt(pos, n) ==
    {k \in 1..Len(wire) :
        /\ FrameStart(k) + PrefixLen = pos
        /\ Len(wire[k].text) = n
        /\ wire[k].sent = PrefixLen + n}

\* ----------------------------------------------------------- standard output
\* one write call: who wrote, length prefix or payload, and of which message
Chunk(w, k, id, msg) == [w |-> w, k |-> k, id |-> id, msg |-> msg]

\* the write calls so far form whole frames: each length prefix is followed
\* at once by the payload it announces
RECURSIVE WellFramed(_)
WellFramed(o) ==
    IF o = <<>> THEN TRUE
    ELSE IF Len(o) = 1 THEN o[1].k = "len"
    ELSE /\ o[1].k = "len"
         /\ o[2].k = "payload"
         /\ o[2].w = o[1].w
         /\ o[2].id = o[1].id
         /\ WellFramed(Tail(Tail(o)))

\* the first two write calls are one whole frame
FrameAhead(o) ==
    /\ Len(o) >= 2
    /\ o[1].k = "len"
    /\ o[2] = Chunk(o[1].w, "payload", o[1].id, o[1].msg)

\* flush: the peer receives the whole frames at the head of what was written
RECURSIVE Rest(_)
Rest(o) == IF FrameAhead(o) THEN Rest(Tail(Tail(o))) ELSE o

RECURSIVE Delivered(_)
Delivered(o) ==
    IF FrameAhead(o)
        THEN (IF o[1].w = "http" THEN {o[1].id} ELSE {})
                 \cup Delivered(Tail(Tail(o)))
        ELSE {}

\* what was flushed is not a sequence of whole frames followed by at most
\* the beginning of one
Torn(o) == ~WellFramed(o)

\* sys.stdout.buffer.flush()
Flush ==
    /\ out' = IF torn \/ Torn(out) THEN <<>> ELSE Rest(out)
    /\ received' = IF torn \/ Torn(out) THEN received
                   ELSE received \cup Delivered(out)
    /\ torn' = (torn \/ Torn(out))

\* ------------------------------------------------------- NativeMessagingHost
\* a response of the control loop
Resp(type, success, port, error) ==
    [type |-> type, success |-> success, port |-> port, error |-> error]

NoResp == Resp("", FALSE, 0, "")

\* (variant: the liveness test of line 151 left out)
AlreadyStarted_Never(thread) == FALSE

\* start_http_server, line 151: a live server thread is left alone
AlreadyStarted(thread) == thread = "alive"

\* socketserver.TCPServer(("", port), ...) in run_server: the bind succeeds
\* when no socket is bound to the port
BindSucceeds(port, busy) == port \notin busy

\* start_http_server: the state of the server thread when the call returns.
\* The new thread binds or fails within the half second the caller sleeps.
ThreadAfterStart(thread, port, busy) ==
    IF AlreadyStarted(thread) THEN thread
    ELSE IF BindSucceeds(port, busy) THEN "alive" ELSE "dead"

\* (variant: True returned without the is_alive() test of line 163)
StartResult_Unchecked(thread, port, busy) == TRUE

\* start_http_server: its return value, is_alive() after the sleep
StartResult(thread, port, busy) ==
    IF AlreadyStarted(thread) THEN TRUE
    ELSE ThreadAfterStart(thread, port, busy) = "alive"

\* stop_http_server: logs, and leaves the server thread as it is
ThreadAfterStop(thread) == thread

\* (variant: the port of the message not looked at)
PortOf_Ignored(data) == DefaultPort

\* data.get('port', 8765)
PortOf(data) == IF "port" \in data.keys THEN data.port ELSE DefaultPort

\* (variant: the branch of lines 251-255 left out)
HandleMessage_NoPing(data, thread, busy) ==
    IF data.kind = "invalid"
        THEN Resp("error", FALSE, 0, "Invalid JSON format")
    ELSE IF data.kind # "object"
        THEN Resp("error", FALSE, 0, "'list' object has no attribute 'get'")
    ELSE IF data.type = "start_server"
        THEN Resp("server_started", StartResult(thread, PortOf(data), busy),
                  PortOf(data), "")
    ELSE IF data.type = "stop_server"
        THEN Resp("server_stopped", TRUE, 0, "")
    ELSE Resp("unknown", FALSE, 0, "Unknown message type: ")

\* handle_message and the except clauses around it: the response
HandleMessage(data, thread, busy) ==
    IF data.kind = "invalid"
        THEN Resp("error", FALSE, 0, "Invalid JSON format")
    ELSE IF data.kind # "object"
        THEN Resp("error", FALSE, 0, "'list' object has no attribute 'get'")
    ELSE IF data.type = "start_server"
        THEN Resp("server_started", StartResult(thread, PortOf(data), busy),
                  PortOf(data), "")
    ELSE IF data.type = "stop_server"
        THEN Resp("server_stopped", TRUE, 0, "")
    ELSE IF data.type = "ping"
        THEN Resp("pong", FALSE, 0, "")
    ELSE Resp("unknown", FALSE, 0, "Unknown message type: ")

\* handle_message: what it does to the server thread
ThreadAfterMessage(data, thread, busy) ==
    IF data.kind = "object" /\ data.type = "start_server"
        THEN ThreadAfterStart(thread, PortOf(data), busy)
    ELSE IF data.kind = "object" /\ data.type = "stop_server"
        THEN ThreadAfterStop(thread)
    ELSE thread

Starts(data, thread) ==
    /\ data.kind = "object"
    /\ data.type = "start_server"
    /\ ~AlreadyStarted(thread)

\* the ports some socket is bound to: those of other processes, and that of
\* the listener of this one, which is never closed
HeldPorts == busyPorts \cup (IF listenPort = 0 THEN {} ELSE {listenPort})

\* lines 187-189: read the length prefix; a short read leaves the loop
MainReadLen ==
    /\ mpc = "read_len"
    /\ CanRead(PrefixLen)
    /\ LET b == Read(PrefixLen) IN
        /\ wire' = WireAfter(Len(b))
        /\ rpos' = RposAfter(Len(b))
        /\ IF Len(b) < PrefixLen
              THEN /\ mpc' = "finally"
                   /\ mlen' = mlen
              ELSE /\ mpc' = "read_payload"
                   /\ mlen' = Unpack(b)
    /\ UNCHANGED <<eof, stdoutVars, peerVars, response, nresp, running,
                   serverVars, clientVars, handlerVars>>
    /\ UNCHANGED <<exitStatus, codecVars>>

\* lines 194-214: read the payload, parse it and handle the message
MainReadPayload ==
    /\ mpc = "read_payload"
    /\ CanRead(mlen)
    /\ LET b == Read(mlen)
           data == Loads(b) IN
        /\ wire' = WireAfter(Len(b))
        /\ rpos' = RposAfter(Len(b))
        /\ mlen' = 0
        /\ IF Len(b) < mlen
              THEN /\ mpc' = "finally"
                   /\ UNCHANGED <<response, nresp, serverVars>>
              ELSE /\ mpc' = "write_len"
                   /\ response' = HandleMessage(data, serverThread, HeldPorts)
                   /\ nresp' = nresp + 1
                   /\ serverThread' =
                          ThreadAfterMessage(data, serverThread, HeldPorts)
                   /\ listenPort' =
                          IF Starts(data, serverThread)
                             /\ BindSucceeds(PortOf(data), HeldPorts)
                             THEN PortOf(data) ELSE listenPort
                   /\ bindLog' =
                          IF Starts(data, serverThread)
                             THEN Append(bindLog,
                                         [port |-> PortOf(data),
                                          ok |-> BindSucceeds(PortOf(data),
                                                              HeldPorts)])
                             ELSE bindLog
                   /\ UNCHANGED busyPorts
    /\ UNCHANGED <<eof, stdoutVars, peerVars, running, clientVars,
                   handlerVars>>
    /\ UNCHANGED <<exitStatus, codecVars>>

\* line 218: sys.stdout.buffer.write(struct.pack('@I', len(encoded_response)))
MainWriteLen ==
    /\ mpc = "write_len"
    /\ out' = Append(out, Chunk("main", "len", nresp, response))
    /\ mpc' = "write_payload"
    /\ UNCHANGED <<stdinVars, torn, received, peerVars, mlen, response, nresp,
                   running, serverVars, clientVars, handlerVars>>
    /\ UNCHANGED <<exitStatus, codecVars>>

\* line 219: sys.stdout.buffer.write(encoded_response)
MainWritePayload ==
    /\ mpc = "write_payload"
    /\ out' = Append(out, Chunk("main", "payload", nresp, response))
    /\ mpc' = "flush"
    /\ UNCHANGED <<stdinVars, torn, received, peerVars, mlen, response, nresp,
                   running, serverVars, clientVars, handlerVars>>
    /\ UNCHANGED <<exitStatus, codecVars>>

\* line 220: sys.stdout.buffer.flush(), then back to the head of the loop
MainFlush ==
    /\ mpc = "flush"
    /\ Flush
    /\ mpc' = "read_len"
    /\ response' = NoResp
    /\ UNCHANGED <<stdinVars, peerVars, mlen, nresp, running, serverVars,
                   clientVars, handlerVars>>
    /\ UNCHANGED <<exitStatus, codecVars>>

\* main, lines 267-272: run_native_messaging_loop catches every exception
\* itself (lines 222-225), so it returns, main returns after it without
\* reaching sys.exit(1), and the exit status is that of a script that ends
ReturnStatus == 0

\* lines 226-229 and main: the loop is left, running is cleared,
\* stop_http_server only logs; main returns and the process ends, and the
\* daemon server thread with it
MainFinally ==
    /\ mpc = "finally"
    /\ running' = FALSE
    /\ serverThread' = ThreadAfterStop(serverThread)
    /\ mpc' = "exited"
    /\ UNCHANGED <<stdinVars, stdoutVars, peerVars, mlen, response, nresp,
                   listenPort, busyPorts, bindLog, clientVars, handlerVars>>
    /\ exitStatus' = ReturnStatus
    /\ UNCHANGED codecVars

\* --------------------------------------------------------- ChatGPTAPIHandler
\* an HTTP request: clen tells whether its Content-Length header is a number
Request(method, path, clen) ==
    [method |-> method, path |-> path, clen |-> clen]

NoRequest == Request("", "", "")

RequestKinds ==
    {Request("GET", "/health", "ok"), Request("POST", "/v1/chat", "ok"),
     Request("POST", "/v1/chat", "bad"), Request("DELETE", "/v1/chat", "ok")}

\* an HTTP reply: the status line and the JSON body, of which healthy is the
\* string under "status", error the string under "error", and body the JSON
\* text of a body that is neither
HttpReply(status, healthy, error, body) ==
    [status |-> status, healthy |-> healthy, error |-> error, body |-> body]

NoReply == HttpReply(0, "", "", <<>>)

\* the connection was closed without a reply
Dropped == HttpReply(-1, "", "", <<>>)

\* do_GET
DoGet(path) ==
    IF path = "/health" \/ path = "/api/health"
        THEN HttpReply(200, "healthy", "", <<>>)
        ELSE HttpReply(404, "", "Endpoint not found", <<>>)

\* the request_data of do_POST and do_DELETE; the probe is the body of a
\* POST, and tells the requests apart
Envelope(r, q) ==
    [type |-> "http_request", method |-> q.method, path |-> q.path,
     probe |-> r]

\* send_to_extension, lines 126-131: what it returns on an exception
CommError(detail) ==
    [Json("object", {"status", "body"}, "", 0, 503, <<>>)
        EXCEPT !.error = detail]

\* (variant: the status of the envelope ignored)
StatusOf_Default(resp) == DefaultStatus

\* response.get('status', 200)
StatusOf(resp) == IF "status" \in resp.keys THEN resp.status ELSE DefaultStatus

\* response.get('body', {})
BodyOf(resp) == IF "body" \in resp.keys THEN resp.body ELSE EmptyObjText

\* do_POST lines 64-68, do_DELETE lines 82-86: the reply for the result of
\* send_to_extension
ReplyFor(resp) ==
    IF resp.kind # "object"
        THEN HttpReply(500, "", "'list' object has no attribute 'get'", <<>>)
        ELSE HttpReply(StatusOf(resp), "", resp.error, BodyOf(resp))

ServerUp == serverThread = "alive" /\ mpc # "exited"

\* a handler is taken up whatever the previous one is doing
HandlerFree_Always == TRUE

\* a handler is taken up while an earlier one still waits for the peer
HandlerFree_Overlapping == hpc \in {"idle", "read_len"}

\* lines 136-138: TCPServer has no threading mix-in, so serve_forever takes
\* the next connection only when the handler of the previous one has returned
HandlerFree == hpc = "idle"

\* the waiting connection taken last of all
Dequeue_Lifo(q) == <<q[Len(q)], SubSeq(q, 1, Len(q) - 1)>>

\* get_request: accept() hands over the waiting connections in the order
\* in which they were made; the one taken, and those left waiting
Dequeue(q) == <<Head(q), Tail(q)>>

\* BaseHTTPRequestHandler.handle_one_request on the next connection: a GET
\* is answered at once; a POST whose Content-Length is not a number raises
\* at line 47, outside the try, and the connection is closed; any other POST
\* and a DELETE go on to send_to_extension
HandleRequest ==
    /\ ServerUp
    /\ HandlerFree
    /\ backlog # <<>>
    /\ LET r == Dequeue(backlog)[1]
           q == req[r] IN
        /\ backlog' = Dequeue(backlog)[2]
        /\ IF q.method = "GET"
              THEN /\ reply' = [reply EXCEPT ![r] = DoGet(q.path)]
                   /\ UNCHANGED <<hpc, hcur>>
           ELSE IF q.method = "POST" /\ q.clen = "bad"
              THEN /\ reply' = [reply EXCEPT ![r] = Dropped]
                   /\ UNCHANGED <<hpc, hcur>>
           ELSE /\ hpc' = "write_len"
                /\ hcur' = r
                /\ UNCHANGED reply
    /\ UNCHANGED <<stdinVars, stdoutVars, peerVars, mainVars, serverVars,
                   req, hlen, hresp>>
    /\ UNCHANGED <<exitStatus, codecVars>>

\* line 107: sys.stdout.buffer.write(struct.pack('@I', len(encoded)))
SendWriteLen ==
    /\ ServerUp
    /\ hpc = "write_len"
    /\ out' = Append(out, Chunk("http", "len", hcur, Envelope(hcur, req[hcur])))
    /\ hpc' = "write_payload"
    /\ UNCHANGED <<stdinVars, torn, received, peerVars, mainVars, serverVars,
                   clientVars, hcur, hlen, hresp>>
    /\ UNCHANGED <<exitStatus, codecVars>>

\* line 108: sys.stdout.buffer.write(encoded)
SendWritePayload ==
    /\ ServerUp
    /\ hpc = "write_payload"
    /\ out' = Append(out,
                     Chunk("http", "payload", hcur, Envelope(hcur, req[hcur])))
    /\ hpc' = "flush"
    /\ UNCHANGED <<stdinVars, torn, received, peerVars, mainVars, serverVars,
                   clientVars, hcur, hlen, hresp>>
    /\ UNCHANGED <<exitStatus, codecVars>>

\* line 109: sys.stdout.buffer.flush()
SendFlush ==
    /\ ServerUp
    /\ hpc = "flush"
    /\ Flush
    /\ hpc' = "read_len"
    /\ UNCHANGED <<stdinVars, peerVars, mainVars, serverVars, clientVars,
                   hcur, hlen, hresp>>
    /\ UNCHANGED <<exitStatus, codecVars>>

\* lines 112-116: read the length prefix of the response
SendReadLen ==
    /\ ServerUp
    /\ hpc = "read_len"
    /\ CanRead(PrefixLen)
    /\ LET b == Read(PrefixLen) IN
        /\ wire' = WireAfter(Len(b))
        /\ rpos' = RposAfter(Len(b))
        /\ IF Len(b) < PrefixLen
              THEN /\ hpc' = "respond"
                   /\ hresp' = CommError(
                          "Failed to read response length from extension")
                   /\ hlen' = hlen
              ELSE /\ hpc' = "read_payload"
                   /\ hlen' = Unpack(b)
                   /\ hresp' = hresp
    /\ UNCHANGED <<eof, stdoutVars, peerVars, mainVars, serverVars,
                   clientVars, hcur>>
    /\ UNCHANGED <<exitStatus, codecVars>>

\* lines 119-131: read the response, parse it and return it; "Expecting
\* value" stands for the message of the json.JSONDecodeError
SendReadPayload ==
    /\ ServerUp
    /\ hpc = "read_payload"
    /\ CanRead(hlen)
    /\ LET b == Read(hlen) IN
        /\ wire' = WireAfter(Len(b))
        /\ rpos' = RposAfter(Len(b))
        /\ hresp' =
              IF Len(b) < hlen
                 THEN CommError(
                          "Failed to read complete response from extension")
              ELSE IF Loads(b).kind = "invalid"
                 THEN CommError("Expecting value")
              ELSE Loads(b)
    /\ hpc' = "respond"
    /\ hlen' = 0
    /\ UNCHANGED <<eof, stdoutVars, peerVars, mainVars, serverVars,
                   clientVars, hcur>>
    /\ UNCHANGED <<exitStatus, codecVars>>

\* do_POST lines 64-68, do_DELETE lines 82-86: send the reply
Respond ==
    /\ ServerUp
    /\ hpc = "respond"
    /\ reply' = [reply EXCEPT ![hcur] = ReplyFor(hresp)]
    /\ hpc' = "idle"
    /\ hcur' = 0
    /\ hresp' = Invalid
    /\ UNCHANGED <<stdinVars, stdoutVars, peerVars, mainVars, serverVars,
                   req, backlog, hlen>>
    /\ UNCHANGED <<exitStatus, codecVars>>

\* ------------------------------------------------------------------ clients
\* a client connects to the listener and sends the next request
ClientSend(q) ==
    /\ ServerUp
    /\ \E r \in Requests :
        /\ req[r] = NoRequest
        /\ \A s \in 1..(r - 1) : req[s] # NoRequest
        /\ req' = [req EXCEPT ![r] = q]
        /\ backlog' = Append(backlog, r)
    /\ UNCHANGED <<stdinVars, stdoutVars, peerVars, mainVars, serverVars,
                   reply, handlerVars>>
    /\ UNCHANGED <<exitStatus, codecVars>>

\* --------------------------------------------------------------------- peer
\* the peer sends a control frame
PeerControl(t) ==
    /\ ~eof
    /\ nctl < MaxControl
    /\ nctl' = nctl + 1
    /\ wire' = Append(wire, WholeFrame(t, "control", 0))
    /\ UNCHANGED <<rpos, eof, stdoutVars, answered, mainVars, serverVars,
                   clientVars, handlerVars>>
    /\ UNCHANGED <<exitStatus, codecVars>>

\* the peer answers a bridge request it has received
PeerAnswer(r, t) ==
    /\ ~eof
    /\ r \notin answered
    /\ r \in received
    /\ wire' = Append(wire, WholeFrame(t, "response", r))
    /\ answered' = answered \cup {r}
    /\ UNCHANGED <<rpos, eof, stdoutVars, nctl, mainVars, serverVars, clientVars,
                   handlerVars>>
    /\ UNCHANGED <<exitStatus, codecVars>>

\* the peer closes the stream
PeerClose ==
    /\ ~eof
    /\ eof' = TRUE
    /\ UNCHANGED <<wire, rpos, stdoutVars, peerVars, mainVars, serverVars,
                   clientVars, handlerVars>>
    /\ UNCHANGED <<exitStatus, codecVars>>

\* the peer dies having written only the first n bytes of a frame
PeerDie(t, n) ==
    /\ ~eof
    /\ nctl < MaxControl
    /\ nctl' = nctl + 1
    /\ wire' = Append(wire, Frame(t, n, "control", 0))
    /\ eof' = TRUE
    /\ UNCHANGED <<rpos, stdoutVars, answered, mainVars, serverVars,
                   clientVars, handlerVars>>
    /\ UNCHANGED <<exitStatus, codecVars>>

\* ------------------------------------------------------------ specification
\* NativeMessagingHost.__init__, and no server yet
HostInit ==
    /\ wire = <<>>
    /\ rpos = 0
    /\ eof = FALSE
    /\ out = <<>>
    /\ torn = FALSE
    /\ received = {}
    /\ answered = {}
    /\ nctl = 0
    /\ mpc = "start"
    /\ mlen = 0
    /\ response = NoResp
    /\ nresp = 0
    /\ running = FALSE
    /\ serverThread = "none"
    /\ listenPort = 0
    /\ busyPorts \in {{}, {DefaultPort}}
    /\ bindLog = <<>>
    /\ req = [r \in Requests |-> NoRequest]
    /\ backlog = <<>>
    /\ reply = [r \in Requests |-> NoReply]
    /\ hpc = "idle"
    /\ hcur = 0
    /\ hlen = 0
    /\ hresp = Invalid
    /\ exitStatus = -1

\* nothing is framed apart from the host's own traffic
CodecIdle ==
    /\ cpay = <<>>
    /\ cstream = <<>>
    /\ cpos = 0
    /\ ctextlen = 0
    /\ cgot = <<>>
    /\ cpc = "idle"

Init == HostInit /\ CodecIdle

\* line 182
MainStart ==
    /\ mpc = "start"
    /\ running' = TRUE
    /\ mpc' = "read_len"
    /\ UNCHANGED <<stdinVars, stdoutVars, peerVars, mlen, response, nresp,
                   serverVars, clientVars, handlerVars>>
    /\ UNCHANGED <<exitStatus, codecVars>>

Main ==
    \/ MainStart
    \/ MainReadLen
    \/ MainReadPayload
    \/ MainWriteLen
    \/ MainWritePayload
    \/ MainFlush
    \/ MainFinally

Handler ==
    \/ HandleRequest
    \/ SendWriteLen
    \/ SendWritePayload
    \/ SendFlush
    \/ SendReadLen
    \/ SendReadPayload
    \/ Respond

Clients == \E q \in RequestKinds : ClientSend(q)

Peer ==
    \/ \E t \in ControlTexts : PeerControl(t)
    \/ \E r \in Requests : \E t \in AnswerTexts(r) : PeerAnswer(r, t)
    \/ PeerClose
    \/ \E n \in {2, 6} : PeerDie(PingText, n)

Next == Main \/ Handler \/ Clients \/ Peer

Spec == Init /\ [][Next]_vars

\* the operating system schedules both threads: neither is held back for
\* ever while it can take a step.  Nothing is assumed of clients and peer.
FairSpec == Spec /\ WF_vars(Main) /\ WF_vars(Handler)

\* ------------------------------------------------------------------ claims
\* the main thread reads, whole and at its place, the text of frame k
MainTakes(k) ==
    /\ mpc = "read_payload"
    /\ mpc' = "write_len"
    /\ k \in FramesAt(rpos, mlen)

\* the server thread reads, whole and at its place, the text of frame k
HandlerTakes(k) ==
    /\ hpc = "read_payload"
    /\ hpc' = "respond"
    /\ Available >= hlen
    /\ k \in FramesAt(rpos, hlen)

\* the main thread reads a payload in full
MainReadsPayload ==
    mpc = "read_payload" /\ mpc' = "write_len"

\* the server thread reads a payload in full
HandlerReadsPayload ==
    hpc = "read_payload" /\ hpc' = "respond" /\ Available >= hlen

\* C1: no cross-delivery. A payload the main thread reads and dispatches as
\* a control message is never a frame the peer wrote in answer to a bridge
\* request, and a payload a handler reads as the response to its request is
\* the frame the peer wrote in answer to that very request.
C1_NoCrossDelivery ==
    [][/\ \A k \in 1..Len(wire) :
             MainTakes(k) => wire[k].kind # "response"
       /\ HandlerReadsPayload =>
             \E k \in FramesAt(rpos, hlen) :
                 wire[k].kind = "response" /\ wire[k].rid = hcur]_vars

IsHealthGet(q) ==
    q.method = "GET" /\ (q.path = "/health" \/ q.path = "/api/health")

\* C2: a GET /health (or /api/health) that a client has sent is eventually
\* answered with status 200 and a body whose status field is "healthy",
\* whatever the bridge is doing.
C2_HealthAlwaysAnswered ==
    \A r \in Requests :
        IsHealthGet(req[r])
            ~> (reply[r].status = 200 /\ reply[r].healthy = "healthy")

\* C3: a bridge call that is waiting for the peer's response does not wait
\* for ever when the peer stays silent: it fails (timeout) and its caller is
\* answered, so that the handler is free for the next request.
C3_SilentPeerTimesOut ==
    \A r \in Requests :
        (hcur = r /\ hpc = "read_len") ~> (reply[r] # NoReply \/ eof)

\* the status and the body the peer put in the envelope with text t
EnvelopeStatus(t) == IF t = NoContentText THEN 204 ELSE 200
EnvelopeBody(t) == IF t = NoContentText THEN EmptyObjText ELSE <<t[Len(t) - 1]>>

Envelopes == {NoContentText} \cup {EchoText(r) : r \in Requests}

\* C4: when send_to_extension reads a whole response envelope, it returns
\* the status and the body of that envelope, and the HTTP reply then
\* carries exactly that status and that body.
C4_ReplyCarriesEnvelope ==
    [][/\ \A k \in 1..Len(wire) :
             (HandlerTakes(k) /\ wire[k].text \in Envelopes) =>
                 /\ hresp'.kind = "object"
                 /\ hresp'.keys = {"status", "body"}
                 /\ hresp'.status = EnvelopeStatus(wire[k].text)
                 /\ hresp'.body = EnvelopeBody(wire[k].text)
                 /\ hresp'.error = ""
       /\ (/\ hpc = "respond"
           /\ hpc' = "idle"
           /\ hresp.kind = "object"
           /\ hresp.keys = {"status", "body"}
           /\ hresp.error = "") =>
              reply'[hcur] = HttpReply(hresp.status, "", "", hresp.body)]_vars

\* a client of a POST or DELETE has been answered 204 with the body {}
C4_Witness ==
    \E r \in Requests :
        /\ req[r].method \in {"POST", "DELETE"}
        /\ reply[r] = HttpReply(204, "", "", EmptyObjText)

\* C5: when the exchange of a forwarded request has failed because the peer
\* disconnected, its client is answered 503 with the error body: once the
\* peer is gone and the host has ended, the request that was waiting for the
\* peer has got that reply.
C5_DisconnectAnswered503 ==
    \A r \in Requests :
        (/\ hcur = r
         /\ hpc \in {"read_len", "read_payload", "respond"}
         /\ eof
         /\ mpc = "exited") =>
            (reply[r].status = 503 /\ reply[r].error # "")

\* C6: every HTTP request whose handling has failed has been answered with a
\* JSON body that has an error field.
C6_FailureHasErrorBody ==
    \A r \in Requests :
        (reply[r] # NoReply /\ reply[r].status \notin 200..399) =>
            (reply[r].status \in 400..599 /\ reply[r].error # "")

StartTexts == {StartText, StartPortText}

\* C7: a start_server message handled while the server thread is alive is
\* answered server_started with success true, and binds nothing: the server
\* thread, the listener and the list of bind attempts are as before.  At
\* most one bind has ever succeeded.
C7_SecondStartIsNoOp ==
    /\ [][\A k \in 1..Len(wire) :
             (/\ MainTakes(k)
              /\ wire[k].text \in StartTexts
              /\ serverThread = "alive") =>
                 /\ response'.type = "server_started"
                 /\ response'.success
                 /\ bindLog' = bindLog
                 /\ serverThread' = "alive"
                 /\ listenPort' = listenPort]_vars
    /\ [](Cardinality({i \in 1..Len(bindLog) : bindLog[i].ok}) <= 1)

\* the second of two start_server messages is being answered success true,
\* after a single, successful, bind
C7_Witness ==
    /\ nresp = 2
    /\ nctl = 2
    /\ response = Resp("server_started", TRUE, DefaultPort, "")
    /\ bindLog = <<[port |-> DefaultPort, ok |-> TRUE]>>

\* C8: a start_server whose bind fails is answered server_started with
\* success false and leaves no listener; the control loop goes on to write
\* that answer; and a start_server on a free port, also after such a
\* failure, is answered success true and leaves a live listener on it.
C8_BindFailureReported ==
    [][\A k \in 1..Len(wire) : \A port \in Ports :
          (/\ MainTakes(k)
           /\ wire[k].text = (IF port = DefaultPort THEN StartText
                                                    ELSE StartPortText)
           /\ serverThread # "alive") =>
              /\ mpc' = "write_len"
              /\ running'
              /\ response'.type = "server_started"
              /\ response'.port = port
              /\ IF port \in busyPorts
                    THEN /\ ~response'.success
                         /\ serverThread' = "dead"
                         /\ listenPort' = 0
                    ELSE /\ response'.success
                         /\ serverThread' = "alive"
                         /\ listenPort' = port]_vars

\* a start_server on a busy port has failed, and a later one on a free port
\* is being answered success true
C8_Witness ==
    /\ bindLog = <<[port |-> DefaultPort, ok |-> FALSE],
                   [port |-> OtherPort, ok |-> TRUE]>>
    /\ response = Resp("server_started", TRUE, OtherPort, "")
    /\ serverThread = "alive"
    /\ running

\* C9: once stop_server has been handled and is being answered, the
\* listener is stopped.
C9_StoppedAfterStop ==
    (response.type = "server_stopped" /\ response.success) =>
        serverThread # "alive"

MalformedTexts == {BrokenText, EmptyObjText, ArrayText}

\* C10: a malformed control payload (not JSON, not an object, or an object
\* without a type) is answered with a response of type "error", and the
\* loop goes on.
C10_MalformedAnsweredError ==
    [][\A k \in 1..Len(wire) :
          (MainTakes(k) /\ wire[k].text \in MalformedTexts) =>
              (response'.type = "error" /\ mpc' = "write_len")]_vars

\* C11: a ping that the control loop handles is answered with one response,
\* of type "pong", and changes nothing: the server thread, the listener,
\* the bind attempts and the running flag are as before.
C11_PingChangesNothing ==
    [][\A k \in 1..Len(wire) :
          (MainTakes(k) /\ wire[k].text = PingText) =>
              /\ response'.type = "pong"
              /\ nresp' = nresp + 1
              /\ mpc' = "write_len"
              /\ serverThread' = serverThread
              /\ listenPort' = listenPort
              /\ bindLog' = bindLog
              /\ running' = running]_vars

\* a ping is being answered pong while the listener runs
C11_Witness ==
    /\ response = Resp("pong", FALSE, 0, "")
    /\ mpc = "write_len"
    /\ serverThread = "alive"
    /\ running

\* C12: when the stream fails under the control loop (end of input on the
\* length prefix, or a payload cut short) the process ends with a non-zero
\* exit status.
C12_FramingErrorExitsNonZero ==
    mpc = "exited" => exitStatus > 0

\* ------------------------------------------------------------ framing alone
\* One text is written as a frame the way lines 106-108 and 217-219 write
\* it, and one frame is read back from those bytes the way lines 112-123 and
\* 187-198 read it.
MaxPayload == 3

\* code points whose UTF-8 encodings take 1, 2, 3 and 4 bytes
CodePoints == {65, 233, 8364, 128512}

\* the texts: every string of at most MaxPayload such code points
Payloads == UNION {[1..n -> CodePoints] : n \in 0..MaxPayload}

\* what one code point becomes under str.encode('utf-8')
EncodeChar(c) ==
    IF c < 128 THEN <<c>>
    ELSE IF c < 2048 THEN <<192 + (c \div 64), 128 + (c % 64)>>
    ELSE IF c < 65536
        THEN <<224 + (c \div 4096), 128 + ((c \div 64) % 64), 128 + (c % 64)>>
    ELSE <<240 + (c \div 262144), 128 + ((c \div 4096) % 64),
           128 + ((c \div 64) % 64), 128 + (c % 64)>>

\* text.encode('utf-8')
RECURSIVE Utf8Encode(_)
Utf8Encode(text) ==
    IF text = <<>> THEN <<>>
    ELSE EncodeChar(Head(text)) \o Utf8Encode(Tail(text))

\* the bytes of one frame: struct.pack('@I', len(encoded)), then encoded
WriteFrame(text) ==
    LET encoded == Utf8Encode(text)
    IN  Pack(Len(encoded)) \o encoded

\* bytes.decode('utf-8') raises UnicodeDecodeError
Undecodable == <<-1>>

\* the number of bytes of the character a lead byte announces
CharLen(lead) ==
    IF lead < 128 THEN 1
    ELSE IF lead < 224 THEN 2
    ELSE IF lead < 240 THEN 3
    ELSE 4

\* the code point the n bytes at the head of b carry
DecodeChar(b, n) ==
    IF n = 1 THEN b[1]
    ELSE IF n = 2 THEN (b[1] - 192) * 64 + (b[2] - 128)
    ELSE IF n = 3
        THEN (b[1] - 224) * 4096 + (b[2] - 128) * 64 + (b[3] - 128)
    ELSE (b[1] - 240) * 262144 + (b[2] - 128) * 4096
           + (b[3] - 128) * 64 + (b[4] - 128)

\* every byte taken for a character of its own
Utf8Decode_BytePerChar(b) == b

\* b.decode('utf-8'): a lead byte in the range of continuation bytes, a
\* character cut short or a continuation byte out of range is an error
RECURSIVE Utf8Decode(_)
Utf8Decode(b) ==
    IF b = <<>> THEN <<>>
    ELSE LET n == CharLen(b[1])
         IN  IF \/ (b[1] >= 128 /\ b[1] < 192)
                \/ Len(b) < n
                \/ \E i \in 2..n : b[i] < 128 \/ b[i] >= 192
                 THEN Undecodable
                 ELSE LET rest == Utf8Decode(SubSeq(b, n + 1, Len(b)))
                      IN  IF rest = Undecodable THEN Undecodable
                          ELSE <<DecodeChar(b, n)>> \o rest

\* what may follow the frame in the byte sequence: nothing, or a next frame
Tails == {<<>>, WriteFrame(<<65>>)}

\* read(n) on the byte sequence: n bytes, or fewer at its end
CodecRead(n) ==
    SubSeq(cstream, cpos + 1, cpos + Min(n, Len(cstream) - cpos))

\* lines 106-108 / 217-219: the text is written as one frame
CodecWrite ==
    /\ cpc = "write"
    /\ \E tail \in Tails : cstream' = WriteFrame(cpay) \o tail
    /\ cpc' = "read_len"
    /\ UNCHANGED <<cpay, cpos, ctextlen, cgot>>
    /\ UNCHANGED <<stdinVars, stdoutVars, peerVars, mainVars, serverVars,
                   clientVars, handlerVars, exitStatus>>

\* lines 112-116 / 187-191: the length prefix is read and unpacked
CodecReadLen ==
    /\ cpc = "read_len"
    /\ LET b == CodecRead(PrefixLen)
       IN  IF Len(b) < PrefixLen
               THEN cpc' = "closed" /\ UNCHANGED <<cpos, ctextlen>>
               ELSE /\ ctextlen' = Unpack(b)
                    /\ cpos' = cpos + PrefixLen
                    /\ cpc' = "read_payload"
    /\ UNCHANGED <<cpay, cstream, cgot>>
    /\ UNCHANGED <<stdinVars, stdoutVars, peerVars, mainVars, serverVars,
                   clientVars, handlerVars, exitStatus>>

\* lines 119-123 / 194-198: text_length bytes are read and decoded
CodecReadPayload ==
    /\ cpc = "read_payload"
    /\ LET b == CodecRead(ctextlen)
       IN  IF Len(b) < ctextlen
               THEN cpc' = "closed" /\ UNCHANGED <<cpos, cgot>>
               ELSE /\ cpos' = cpos + ctextlen
                    /\ cgot' = Utf8Decode(b)
                    /\ cpc' = IF Utf8Decode(b) = Undecodable
                                  THEN "failed" ELSE "done"
    /\ UNCHANGED <<cpay, cstream, ctextlen>>
    /\ UNCHANGED <<stdinVars, stdoutVars, peerVars, mainVars, serverVars,
                   clientVars, handlerVars, exitStatus>>

\* a text of the bounded set is about to be framed
CodecInit ==
    /\ HostInit
    /\ cpay \in Payloads
    /\ cstream = <<>>
    /\ cpos = 0
    /\ ctextlen = 0
    /\ cgot = <<>>
    /\ cpc = "write"

CodecNext == CodecWrite \/ CodecReadLen \/ CodecReadPayload

CodecSpec == CodecInit /\ [][CodecNext]_vars

\* C13: a text written as a frame carries in its 4-byte prefix the number of
\* bytes of its UTF-8 encoding; reading one frame back never fails, yields
\* exactly that text, and consumes exactly the prefix and those bytes.
C13_FramingRoundTrips ==
    /\ cpc \notin {"closed", "failed"}
    /\ cpc \in {"read_len", "read_payload", "done"} =>
           SubSeq(cstream, 1, PrefixLen) = Pack(Len(Utf8Encode(cpay)))
    /\ cpc \in {"read_payload", "done"} => ctextlen = Len(Utf8Encode(cpay))
    /\ cpc = "done" =>
           /\ cgot = cpay
           /\ cpos = PrefixLen + Len(Utf8Encode(cpay))

\* a text with a multi-byte character has been read back, and the frame
\* that follows it is still unread
C13_Witness ==
    /\ cpc = "done"
    /\ cgot = cpay
    /\ \E i \in 1..Len(cpay) : cpay[i] > 127
    /\ cpos < Len(cstream)

\* the program positions at which a thread is inside sys.stdin.buffer.read
ReadingStdin == {"read_len", "read_payload"}

\* C14: the control loop and an HTTP handler's bridge call are never both in
\* the middle of reading standard input.
C14_SingleReader ==
    ~(mpc \in ReadingStdin /\ hpc \in ReadingStdin)

\* a bridge request frame has been written and flushed and its response is
\* awaited
PendingExchange == hpc \in ReadingStdin

\* C15: while an exchange is pending, the control loop does not take an
\* inbound frame and dispatch it as a control message; it dispatches one
\* only when no exchange is pending.
C15_PendingFrameIsResponse ==
    [][PendingExchange => ~MainReadsPayload]_vars

\* the request frame of a has been written, in part at least
FrameWritten(a) ==
    \/ a \in received
    \/ \E i \in 1..Len(out) : out[i].w = "http" /\ out[i].id = a
    \/ hcur = a /\ hpc \in {"write_payload", "flush", "read_len",
                            "read_payload", "respond"}

\* the requests whose frame was written and whose handler has not replied
Unresolved == {a \in Requests : FrameWritten(a) /\ reply[a] = NoReply}

\* the server thread writes the length prefix of a request frame
HandlerWritesFrame == hpc = "write_len" /\ hpc' = "write_payload"

\* C16: at most one request frame is written and not yet resolved, and a
\* request frame is written only when every request frame written before it
\* has been resolved by a reply to its client.
C16_ExchangesSerialized ==
    /\ [](Cardinality(Unresolved) <= 1)
    /\ [][HandlerWritesFrame => Unresolved \subseteq {hcur}]_vars

\* the second request's frame is being written after the first exchange was
\* resolved with the peer's response
C16_Witness ==
    /\ hpc = "write_payload"
    /\ hcur = 2
    /\ 1 \in received
    /\ reply[1].status = 200

\* C17: what the two threads have written to standard output is a sequence
\* of whole frames, each length prefix followed at once by its own payload,
\* and nothing torn has been flushed.
C17_WritesNeverInterleave ==
    ~torn /\ WellFramed(out)

\* a request that do_POST or do_DELETE passes on to send_to_extension
Forwarded(q) ==
    /\ q # NoRequest
    /\ q.method # "GET"
    /\ ~(q.method = "POST" /\ q.clen = "bad")

LoopEnded == mpc \in {"finally", "exited"}

\* the server thread takes up a request that goes to send_to_extension
HandlerAcceptsSubmission == hpc = "idle" /\ hpc' = "write_len"

\* C19: once the control loop has ended on the peer's end of input, the
\* listener accepts no further bridge submission.
C19_NoSubmissionAfterClose ==
    [][LoopEnded => ~HandlerAcceptsSubmission]_vars

\* C20: while a handler has not returned, the listener takes up no other
\* request and no other request is answered, whatever its method or path;
\* so at most one send_to_extension call is in progress.
C20_OneHandlerAtATime ==
    [][hpc # "idle" =>
          /\ Len(backlog') >= Len(backlog)
          /\ \A i \in 1..Len(backlog) : backlog'[i] = backlog[i]
          /\ \A r \in Requests \ {hcur} : reply'[r] = reply[r]]_vars

\* a handler waits for the peer, and a GET /health that needs no peer waits
\* behind it unanswered
C20_Witness ==
    /\ hpc = "read_len"
    /\ backlog # <<>>
    /\ IsHealthGet(req[Head(backlog)])
    /\ reply[Head(backlog)] = NoReply

\* the port a start_server message with this text asks for
AskedPort(t) == IF t = StartPortText THEN OtherPort ELSE DefaultPort

\* C21: a start_server message handled while the server thread is alive is
\* answered success true with the port that message gave, and starts and
\* binds nothing, the listener staying on the port it has; and at most one
\* server thread is ever alive: one bind at most has succeeded, and a live
\* thread listens on the port of that bind.
C21_StartEchoesGivenPort ==
    /\ [][\A k \in 1..Len(wire) :
             (/\ MainTakes(k)
              /\ wire[k].text \in StartTexts
              /\ serverThread = "alive") =>
                 /\ response' = Resp("server_started", TRUE,
                                     AskedPort(wire[k].text), "")
                 /\ UNCHANGED serverVars]_vars
    /\ [](LET won == {i \in 1..Len(bindLog) : bindLog[i].ok}
          IN  /\ Cardinality(won) <= 1
              /\ serverThread = "alive" =>
                     \E i \in won : bindLog[i].port = listenPort)

\* a start_server for the other port is being answered success true with
\* that port while the listener is bound to the default port
C21_Witness ==
    /\ mpc = "write_len"
    /\ response = Resp("server_started", TRUE, OtherPort, "")
    /\ serverThread = "alive"
    /\ listenPort = DefaultPort
    /\ bindLog = <<[port |-> DefaultPort, ok |-> TRUE]>>
====
